---- MODULE Spec2Model ----
(***************************************************************************)
(* go-caskdb: DiskStore (disk_store.go), a log-structured key-value store. *)
(* One append-only file of records and an in-memory keyStore that maps a   *)
(* key to the KeyEntry {timestamp, position, totalSize} of a record.       *)
(*                                                                         *)
(* The file is modelled byte by byte.  A byte is a natural number 0..255;  *)
(* a Go string or []byte is a sequence of bytes.  Offsets are 0-based as   *)
(* in the code; the byte at offset o of a file f is f[o + 1].              *)
(***************************************************************************)
EXTENDS Integers, Sequences, FiniteSets, TLC

(***************************************************************************)
(* Bounds of the model.                                                    *)
(***************************************************************************)
\* Number of Set calls (completed or failed) over the life of the file.
MaxSets == 3

\* The keys and the values handed to Get and Set.
Keys == {<<1>>, <<2>>}
Values == {<<>>, <<1>>, <<2>>}

(***************************************************************************)
(* Record codec.  format.go is not among the sources; the codec is taken   *)
(* from the format description: header = timestamp, key_size, value_size,  *)
(* each 4 bytes little-endian, followed by the key and the value bytes.    *)
(***************************************************************************)
headerSize == 12

\* A 32-bit unsigned integer as 4 little-endian bytes.
PutUint32(n) ==
    << n % 256, (n \div 256) % 256, (n \div 65536) % 256, (n \div 16777216) % 256 >>

\* The 32-bit unsigned integer held in the 4 bytes of b that start at offset o.
Uint32At(b, o) ==
    b[o + 1] + 256 * b[o + 2] + 65536 * b[o + 3] + 16777216 * b[o + 4]

\* encodeKV(timestamp, key, value) -> (total size, bytes)
encodeKV(timestamp, key, value) ==
    [ size  |-> headerSize + Len(key) + Len(value),
      bytes |-> PutUint32(timestamp) \o PutUint32(Len(key)) \o PutUint32(Len(value))
                  \o key \o value ]

\* decodeHeader(12 bytes) -> (timestamp, keySize, valueSize)
decodeHeader(buf) ==
    [ timestamp |-> Uint32At(buf, 0),
      keySize   |-> Uint32At(buf, 4),
      valueSize |-> Uint32At(buf, 8) ]

\* decodeKV(buffer) -> (timestamp, key, value); it fails when the buffer is
\* shorter than the record its own header describes.
decodeKV(buf) ==
    LET h == decodeHeader(buf) IN
    IF Len(buf) < headerSize \/ Len(buf) < headerSize + h.keySize + h.valueSize
    THEN [ ok |-> FALSE, timestamp |-> 0, key |-> <<>>, value |-> <<>> ]
    ELSE [ ok        |-> TRUE,
           timestamp |-> h.timestamp,
           key       |-> SubSeq(buf, headerSize + 1, headerSize + h.keySize),
           value     |-> SubSeq(buf, headerSize + h.keySize + 1,
                                headerSize + h.keySize + h.valueSize) ]

\* KeyEntry{timestamp, position, totalSize}
KeyEntry(timestamp, position, totalSize) ==
    [ timestamp |-> timestamp, position |-> position, totalSize |-> totalSize ]

(***************************************************************************)
(* Conversions and file primitives used by disk_store.go.                  *)
(***************************************************************************)
\* 2^16.  A number of 32 bits is two digits to this base.
Half == 65536

\* uint32(x) of a non-negative integer: x modulo 2^32, the two low digits of
\* x to the base 2^16.
uint32(x) == ((x \div Half) % Half) * Half + (x % Half)

\* The numbers of the program that need more than 31 bits (an int64 offset,
\* an int length, a uint32 near 2^32): the number hi * 2^16 + lo, lo < 2^16.
Wide(hi, lo) == [ hi |-> hi, lo |-> lo ]

\* The sum of two such numbers, exact.
WideAdd(a, b) ==
    [ hi |-> a.hi + b.hi + (a.lo + b.lo) \div Half, lo |-> (a.lo + b.lo) % Half ]

\* uint32(x) of such a number: x modulo 2^32.
uint32Wide(x) == [ hi |-> x.hi % Half, lo |-> x.lo ]

\* a + b of two uint32 values: the sum modulo 2^32.
uint32Add(a, b) == uint32Wide(WideAdd(a, b))

\* io.ReadFull(file, buf) with len(buf) = n on a file with contents f whose
\* offset is off: "ok" with the n bytes, "EOF" when no byte could be read,
\* "ErrUnexpectedEOF" when some but fewer than n bytes could be read.
ReadFull(f, off, n) ==
    LET avail == IF off >= Len(f) THEN 0 ELSE Len(f) - off IN
    IF n = 0 THEN [ err |-> "nil", buf |-> <<>>, off |-> off ]
    ELSE IF avail = 0 THEN [ err |-> "EOF", buf |-> <<>>, off |-> off ]
    ELSE IF avail < n
         THEN [ err |-> "ErrUnexpectedEOF", buf |-> SubSeq(f, off + 1, Len(f)),
                off |-> Len(f) ]
    ELSE [ err |-> "nil", buf |-> SubSeq(f, off + 1, off + n), off |-> off + n ]

\* Mutant of FileWrite: the file is opened without O_APPEND, so the bytes go
\* to the offset of the descriptor and replace what is there.
FileWriteAtOffset(f, off, bytes) ==
    LET pad  == [ i \in 1..(IF off > Len(f) THEN off - Len(f) ELSE 0) |-> 0 ]
        head == SubSeq(f \o pad, 1, off)
        rest == SubSeq(f, off + Len(bytes) + 1, Len(f))
    IN [ file |-> head \o bytes \o rest, off |-> off + Len(bytes) ]

\* os.File.Write on a file opened with O_APPEND: the bytes are put at the end
\* of the file, wherever the offset was, and the offset ends at the new end.
FileWrite(f, off, bytes) ==
    [ file |-> f \o bytes, off |-> Len(f) + Len(bytes) ]

\* Mutant of OpenFile: the flags lack O_CREATE, so opening a path without a
\* file fails.
OpenFileNoCreate(e) == [ err |-> ~e, exists |-> e ]

\* os.OpenFile(fileName, O_RDWR|O_CREATE|O_APPEND, 0666): O_CREATE makes the
\* file when there is none, so the call succeeds and the file exists after it.
OpenFile(e) == [ err |-> FALSE, exists |-> TRUE ]

\* isFileExists(fileName): os.Stat succeeds exactly when the file exists.
isFileExists(e) == e

\* The keyStore map: a function from the keys present to their KeyEntry.
EmptyKeyStore == [ k \in {} |-> KeyEntry(0, 0, 0) ]

\* Mutant of Upsert: the new entry replaces the whole map.
UpsertAlone(ks, key, entry) == [ k \in {key} |-> entry ]

\* d.keyStore[key] = entry
Upsert(ks, key, entry) ==
    [ k \in (DOMAIN ks) \cup {key} |-> IF k = key THEN entry ELSE ks[k] ]

\* Mutant of ScanFrom: a short header or a short key ends the scan like the
\* end of the file does.
RECURSIVE ScanFromLenient(_, _, _)
ScanFromLenient(f, pos, ks) ==
    LET hr == ReadFull(f, pos, headerSize) IN
    IF hr.err # "nil" THEN [ ok |-> TRUE, keyStore |-> ks ]
    ELSE
      LET h  == decodeHeader(hr.buf)
          kr == ReadFull(f, hr.off, h.keySize)
      IN
      IF kr.err # "nil" THEN [ ok |-> TRUE, keyStore |-> ks ]
      ELSE
        LET next      == kr.off + h.valueSize
            totalSize == uint32(headerSize + h.keySize + h.valueSize)
        IN ScanFromLenient(f, next,
             Upsert(ks, kr.buf, KeyEntry(h.timestamp, uint32(pos), totalSize)))

\* Mutant of ScanFrom: an entry already in the keyStore is kept, so the first
\* record of a key wins instead of the last.
RECURSIVE ScanFromKeepFirst(_, _, _)
ScanFromKeepFirst(f, pos, ks) ==
    LET hr == ReadFull(f, pos, headerSize) IN
    IF hr.err = "EOF" THEN [ ok |-> TRUE, keyStore |-> ks ]
    ELSE IF hr.err # "nil" THEN [ ok |-> FALSE, keyStore |-> ks ]
    ELSE
      LET h  == decodeHeader(hr.buf)
          kr == ReadFull(f, hr.off, h.keySize)
      IN
      IF kr.err # "nil" THEN [ ok |-> FALSE, keyStore |-> ks ]
      ELSE
        LET next      == kr.off + h.valueSize
            totalSize == uint32(headerSize + h.keySize + h.valueSize)
        IN ScanFromKeepFirst(f, next,
             IF kr.buf \in DOMAIN ks THEN ks
             ELSE Upsert(ks, kr.buf, KeyEntry(h.timestamp, uint32(pos), totalSize)))

(***************************************************************************)
(* createKeyStore: the scan of an existing file from offset 0.  It yields  *)
(* the keyStore built so far and whether it ended by log.Fatal.            *)
(***************************************************************************)
RECURSIVE ScanFrom(_, _, _)
ScanFrom(f, pos, ks) ==
    LET hr == ReadFull(f, pos, headerSize) IN
    IF hr.err = "EOF" THEN [ ok |-> TRUE, keyStore |-> ks ]
    ELSE IF hr.err # "nil" THEN [ ok |-> FALSE, keyStore |-> ks ]
    ELSE
      LET h  == decodeHeader(hr.buf)
          kr == ReadFull(f, hr.off, h.keySize)
      IN
      IF kr.err # "nil" THEN [ ok |-> FALSE, keyStore |-> ks ]
      ELSE
        \* file.Seek(int64(valueSize), io.SeekCurrent) may pass the end of the
        \* file; that is no error.
        LET next      == kr.off + h.valueSize
            totalSize == uint32(headerSize + h.keySize + h.valueSize)
        IN ScanFrom(f, next,
                    Upsert(ks, kr.buf, KeyEntry(h.timestamp, uint32(pos), totalSize)))

createKeyStore(f, ks) == ScanFrom(f, 0, ks)

\* Mutant of GetResult: the error of the read is ignored, and the buffer, zero
\* beyond the bytes that were read, is decoded.
GetResultIgnoresShortRead(ks, f, off, isOpen, key) ==
    IF key \notin DOMAIN ks THEN [ status |-> "ok", ret |-> <<>>, off |-> off ]
    ELSE IF ~isOpen THEN [ status |-> "fatal", ret |-> <<>>, off |-> off ]
    ELSE
      LET r   == ReadFull(f, ks[key].position, ks[key].totalSize)
          buf == r.buf \o [ i \in 1..(ks[key].totalSize - Len(r.buf)) |-> 0 ]
          kv  == decodeKV(buf)
      IN
      IF kv.ok THEN [ status |-> "ok", ret |-> kv.value, off |-> r.off ]
      ELSE [ status |-> "panic", ret |-> <<>>, off |-> r.off ]

\* Mutant of GetResult: a key that is not in the index is an error.
GetResultMissFails(ks, f, off, isOpen, key) ==
    IF key \notin DOMAIN ks THEN [ status |-> "fatal", ret |-> <<>>, off |-> off ]
    ELSE IF ~isOpen THEN [ status |-> "fatal", ret |-> <<>>, off |-> off ]
    ELSE
      LET r == ReadFull(f, ks[key].position, ks[key].totalSize) IN
      IF r.err # "nil" THEN [ status |-> "fatal", ret |-> <<>>, off |-> r.off ]
      ELSE
        LET kv == decodeKV(r.buf) IN
        IF kv.ok THEN [ status |-> "ok", ret |-> kv.value, off |-> r.off ]
        ELSE [ status |-> "panic", ret |-> <<>>, off |-> r.off ]

(***************************************************************************)
(* What Get(key) does on a store with keyStore ks whose file has contents  *)
(* f, offset off and is open or closed: its outcome and the new offset.    *)
(*   status "ok":    Get returns ret                                       *)
(*   status "fatal": Get ends the process through log.Fatal                *)
(*   status "panic": decodeKV fails on the buffer read                     *)
(***************************************************************************)
GetResult(ks, f, off, isOpen, key) ==
    IF key \notin DOMAIN ks THEN [ status |-> "ok", ret |-> <<>>, off |-> off ]
    ELSE IF ~isOpen THEN [ status |-> "fatal", ret |-> <<>>, off |-> off ]
    ELSE
      LET r == ReadFull(f, ks[key].position, ks[key].totalSize) IN
      IF r.err # "nil" THEN [ status |-> "fatal", ret |-> <<>>, off |-> r.off ]
      ELSE
        LET kv == decodeKV(r.buf) IN
        IF kv.ok THEN [ status |-> "ok", ret |-> kv.value, off |-> r.off ]
        ELSE [ status |-> "panic", ret |-> <<>>, off |-> r.off ]

(***************************************************************************)
(* State.                                                                  *)
(***************************************************************************)
VARIABLES
    exists,     \* a file exists at the store's path
    disk,       \* the contents of that file
    pc,         \* "none": no store yet; "open": NewDiskStore returned, file
                \* open; "closed": Close was called; "dead": the process ended
    offset,     \* the offset of the descriptor d.file
    keyStore,   \* d.keyStore
    last,       \* the last call and its outcome (of a Set that ended the
                \* process: that it was a Set and that it was fatal)
    log,        \* the Set calls made on an open store, in order: what each
                \* was to write, the offset its bytes are at, how many it wrote
    session,    \* facts about the store since it was opened
    inflight,   \* for each thread that calls Set step by step: where it is in
                \* Set and the locals of the call
    wide        \* an offset and a record size beyond the range of the other
                \* variables, and the KeyEntry made from them

vars == << exists, disk, pc, offset, keyStore, last, log, session, inflight,
           wide >>

\* An entry of log for a Set that completed: the record of (timestamp, key,
\* value), `written` bytes long, is at offset `at` of the file.
Written(timestamp, key, value, at, written) ==
    [ complete |-> TRUE, timestamp |-> timestamp, key |-> key, value |-> value,
      at |-> at, written |-> written ]

\* An entry of log for a Set whose write failed: it left the first `written`
\* bytes of a record at offset `at`.  The process ended with the call, and
\* the entry keeps what is in the file, not the arguments of the call.
Torn(at, written) ==
    [ complete |-> FALSE, timestamp |-> 0, key |-> <<>>, value |-> <<>>,
      at |-> at, written |-> written ]

Call(op, key, value, status, ret) ==
    [ op |-> op, key |-> key, value |-> value, status |-> status, ret |-> ret ]

NoCall == Call("none", <<>>, <<>>, "ok", <<>>)

\* The threads that call Set step by step, none of them inside a call:
\* pc is where the thread is in Set, the other fields are the locals of
\* the call and two facts about it (where its record went, and whether
\* another thread wrote between its Seek and its Write).
Threads == {1, 2}
NoThreads ==
    [ t \in Threads |-> [ pc |-> "idle", key |-> <<>>, value |-> <<>>,
                          timestamp |-> 0, pos |-> 0, at |-> 0, raced |-> FALSE ] ]

\* Nothing was converted: op is the operation that made the entry ("Set" or
\* "Scan") or read through it ("Get"), pos and size are the offset and the
\* length of the record, entry is the KeyEntry made of them, and seek and
\* read are the offset Get seeks to and the number of bytes it reads.
NoWide ==
    [ op |-> "none", pos |-> Wide(0, 0), size |-> Wide(0, 0),
      entry |-> KeyEntry(0, Wide(0, 0), Wide(0, 0)),
      seek |-> Wide(0, 0), read |-> Wide(0, 0) ]

Init ==
    /\ exists = FALSE
    /\ disk = <<>>
    /\ pc = "none"
    /\ offset = 0
    /\ keyStore = EmptyKeyStore
    /\ last = NoCall
    /\ log = <<>>
    /\ session = [ start |-> 0, fresh |-> FALSE, gets |-> FALSE ]
    /\ inflight = NoThreads
    /\ wide = NoWide

(***************************************************************************)
(* NewDiskStore(fileName), called when no store is in use: at the start,   *)
(* after Close, or in a new process after the previous one ended.          *)
(***************************************************************************)
NewDiskStore ==
    /\ pc \in {"none", "closed", "dead"}
    /\ LET r == IF isFileExists(exists) THEN createKeyStore(disk, EmptyKeyStore)
                ELSE [ ok |-> TRUE, keyStore |-> EmptyKeyStore ]
           o == OpenFile(exists)
       IN
       /\ keyStore' = r.keyStore
       /\ IF r.ok /\ ~o.err
          THEN /\ pc' = "open"
               /\ exists' = o.exists
               /\ disk' = IF exists THEN disk ELSE <<>>
               /\ last' = Call("Open", <<>>, <<>>, "ok", <<>>)
          ELSE /\ pc' = "dead"
               /\ UNCHANGED << exists, disk >>
               /\ last' = Call("Open", <<>>, <<>>, "fatal", <<>>)
    /\ offset' = 0
    /\ session' = [ start |-> Len(log), fresh |-> ~exists, gets |-> FALSE ]
    /\ UNCHANGED << log, inflight, wide >>

(***************************************************************************)
(* Get(key)                                                                *)
(***************************************************************************)
Get(key) ==
    /\ pc \in {"open", "closed"}
    /\ LET r == GetResult(keyStore, disk, offset, pc = "open", key) IN
       /\ offset' = r.off
       /\ pc' = IF r.status = "ok" THEN pc ELSE "dead"
       /\ last' = Call("Get", key, <<>>, r.status, r.ret)
    /\ session' = [ session EXCEPT !.gets = TRUE ]
    /\ UNCHANGED << exists, disk, keyStore, log, inflight, wide >>

(***************************************************************************)
(* Set(key, value).  The write either completes, or it fails after n bytes *)
(* of the record were written and log.Fatal ends the process.              *)
(***************************************************************************)
\* What a Set(key, value) that completes at time timestamp makes of the
\* keyStore ks, the file contents f and the offset off.
SetEffect(ks, f, off, key, value, timestamp) ==
    LET e   == encodeKV(timestamp, key, value)
        pos == off
        w   == FileWrite(f, off, e.bytes)
    IN [ file     |-> w.file,
         off      |-> w.off,
         keyStore |-> Upsert(ks, key,
                             KeyEntry(timestamp, uint32(pos), uint32(e.size))) ]

SetOpen(key, value, timestamp) ==
    /\ pc = "open"
    /\ Len(log) < MaxSets
    /\ LET e == encodeKV(timestamp, key, value)
           r == SetEffect(keyStore, disk, offset, key, value, timestamp)
       IN
       /\ disk' = r.file
       /\ offset' = r.off
       /\ keyStore' = r.keyStore
       /\ log' = Append(log, Written(timestamp, key, value, Len(disk), e.size))
    /\ pc' = pc
    /\ last' = Call("Set", key, value, "ok", <<>>)
    /\ UNCHANGED << exists, session, inflight, wide >>

\* The numbers of bytes a failed write leaves behind: none, a part of the
\* header, the header with a part of the key, and the header and the key with
\* a part of the value.  The scan reads a header and a key whole, so every
\* cut inside a header behaves alike, and so does every cut inside a key.
PartialWrites(key, value) ==
    { n \in 0..(headerSize + Len(key) + Len(value) - 1) :
        \/ n \in {0, 1}
        \/ n = headerSize /\ Len(key) > 0
        \/ n >= headerSize + Len(key) }

\* Mutant of SetWriteFails: the keyStore is updated before the write.
SetWriteFailsAfterStore(key, value, timestamp) ==
    /\ pc = "open"
    /\ Len(log) < MaxSets
    /\ LET e == encodeKV(timestamp, key, value) IN
       \E n \in PartialWrites(key, value) :
          LET w == FileWrite(disk, offset, SubSeq(e.bytes, 1, n)) IN
          /\ disk' = w.file
          /\ offset' = w.off
          /\ log' = Append(log, Torn(Len(disk), n))
    /\ pc' = "dead"
    /\ last' = Call("Set", <<>>, <<>>, "fatal", <<>>)
    /\ keyStore' = SetEffect(keyStore, disk, offset, key, value, timestamp).keyStore
    /\ UNCHANGED << exists, session, inflight, wide >>

SetWriteFails(key, value, timestamp) ==
    /\ pc = "open"
    /\ Len(log) < MaxSets
    /\ LET e == encodeKV(timestamp, key, value) IN
       \E n \in PartialWrites(key, value) :
          LET w == FileWrite(disk, offset, SubSeq(e.bytes, 1, n)) IN
          /\ disk' = w.file
          /\ offset' = w.off
          /\ log' = Append(log, Torn(Len(disk), n))
    /\ pc' = "dead"
    /\ last' = Call("Set", <<>>, <<>>, "fatal", <<>>)
    /\ UNCHANGED << exists, keyStore, session, inflight, wide >>

\* Set on a closed store: d.file.Seek fails and log.Fatal ends the process.
SetClosed(key, value) ==
    /\ pc = "closed"
    /\ pc' = "dead"
    /\ last' = Call("Set", <<>>, <<>>, "fatal", <<>>)
    /\ UNCHANGED << exists, disk, offset, keyStore, log, session, inflight, wide >>

\* uint32(time.Now().Unix()): the clock advances by one second from one Set
\* call to the next, so the records of a file carry different timestamps.
Now == uint32(Len(log) + 1)

Set(key, value, timestamp) ==
    \/ SetOpen(key, value, timestamp)
    \/ SetWriteFails(key, value, timestamp)
    \/ SetClosed(key, value)

(***************************************************************************)
(* Close(): closes the file; on a file already closed it returns false.    *)
(***************************************************************************)
Close ==
    /\ pc \in {"open", "closed"}
    /\ pc' = "closed"
    /\ last' = Call("Close", <<>>, <<>>, IF pc = "open" THEN "ok" ELSE "false", <<>>)
    /\ UNCHANGED << exists, disk, offset, keyStore, log, session, inflight, wide >>

Next ==
    \/ NewDiskStore
    \/ \E key \in Keys : Get(key)
    \/ \E key \in Keys, value \in Values : Set(key, value, Now)
    \/ Close

Spec == Init /\ [][Next]_vars

(***************************************************************************)
(* Set called by two threads on one store.  Set takes no lock, so a call   *)
(* is three steps on the shared descriptor and map, and the steps of two   *)
(* calls interleave:                                                       *)
(*   SetSeek   pos from d.file.Seek(0, io.SeekCurrent)                     *)
(*   SetWrite  d.file.Write(data)                                          *)
(*   SetStore  d.keyStore[key] = KeyEntry{timestamp, uint32(pos), ...}     *)
(* Seek and Write are system calls, each atomic on the file.  The store is *)
(* opened on a new path and only Set is called, so that in calls made one  *)
(* after the other the offset read is the end of the file.                 *)
(***************************************************************************)
\* The threads that have read the offset and not yet written.
Writers == { t \in DOMAIN inflight : inflight[t].pc = "write" }

\* time.Now() of a call: every call gets a timestamp of its own.
NowOfCall == uint32(Len(log) + Cardinality(Writers) + 1)

\* NewDiskStore, called once, before the threads start.
NewDiskStoreOnce == pc = "none" /\ NewDiskStore

SetSeek(t, key, value) ==
    /\ pc = "open"
    /\ inflight[t].pc \in {"idle", "done"}
    /\ Len(log) + Cardinality(Writers) < MaxSets
    /\ inflight' = [ inflight EXCEPT ![t] =
                       [ pc |-> "write", key |-> key, value |-> value,
                         timestamp |-> NowOfCall, pos |-> offset,
                         at |-> 0, raced |-> FALSE ] ]
    /\ UNCHANGED << exists, disk, pc, offset, keyStore, last, log, session, wide >>

\* The record of the call of t goes to the end of the file, whatever pos is;
\* a thread that had read the offset before this write holds a stale pos.
SetWrite(t) ==
    /\ pc = "open"
    /\ t \in Writers
    /\ LET c == inflight[t]
           e == encodeKV(c.timestamp, c.key, c.value)
           w == FileWrite(disk, offset, e.bytes)
       IN
       /\ disk' = w.file
       /\ offset' = w.off
       /\ log' = Append(log, Written(c.timestamp, c.key, c.value, Len(disk), e.size))
       /\ inflight' = [ u \in DOMAIN inflight |->
                          IF u = t
                          THEN [ c EXCEPT !.pc = "store", !.at = w.off - e.size ]
                          ELSE IF u \in Writers
                               THEN [ inflight[u] EXCEPT !.raced = TRUE ]
                               ELSE inflight[u] ]
    /\ UNCHANGED << exists, pc, keyStore, last, session, wide >>

\* The write of the call of t fails after n bytes: log.Fatalln ends the
\* process and with it every thread.
SetWriteError(t) ==
    /\ pc = "open"
    /\ t \in Writers
    /\ LET c == inflight[t]
           e == encodeKV(c.timestamp, c.key, c.value)
       IN \E n \in PartialWrites(c.key, c.value) :
            LET w == FileWrite(disk, offset, SubSeq(e.bytes, 1, n)) IN
            /\ disk' = w.file
            /\ offset' = w.off
            /\ log' = Append(log, Torn(Len(disk), n))
    /\ pc' = "dead"
    /\ last' = Call("Set", <<>>, <<>>, "fatal", <<>>)
    /\ inflight' = NoThreads
    /\ UNCHANGED << exists, keyStore, session, wide >>

\* A thread whose call returned: its locals are gone, what is kept is which
\* call it made and where the record of that call is.
Returned(c) ==
    [ pc |-> "done", key |-> c.key, value |-> <<>>, timestamp |-> c.timestamp,
      pos |-> 0, at |-> c.at, raced |-> FALSE ]

\* Mutant of SetStore: the position stored is where the record was written.
SetStoreWhereWritten(t) ==
    /\ pc = "open"
    /\ inflight[t].pc = "store"
    /\ LET c == inflight[t]
           e == encodeKV(c.timestamp, c.key, c.value)
       IN keyStore' = Upsert(keyStore, c.key,
                             KeyEntry(c.timestamp, uint32(c.at), uint32(e.size)))
    /\ inflight' = [ inflight EXCEPT ![t] = Returned(inflight[t]) ]
    /\ last' = Call("Set", inflight[t].key, inflight[t].value, "ok", <<>>)
    /\ UNCHANGED << exists, disk, pc, offset, log, session, wide >>

SetStore(t) ==
    /\ pc = "open"
    /\ inflight[t].pc = "store"
    /\ LET c == inflight[t]
           e == encodeKV(c.timestamp, c.key, c.value)
       IN keyStore' = Upsert(keyStore, c.key,
                             KeyEntry(c.timestamp, uint32(c.pos), uint32(e.size)))
    /\ inflight' = [ inflight EXCEPT ![t] = Returned(inflight[t]) ]
    /\ last' = Call("Set", inflight[t].key, inflight[t].value, "ok", <<>>)
    /\ UNCHANGED << exists, disk, pc, offset, log, session, wide >>

\* Two threads assign to the map at once.  This is a data race on a Go map:
\* the assignments may take effect one after the other (SetStore twice), or
\* the runtime stops the process with "concurrent map writes".
SetStoreRace ==
    /\ pc = "open"
    /\ \A t \in Threads : inflight[t].pc = "store"
    /\ pc' = "dead"
    /\ last' = Call("Set", <<>>, <<>>, "fatal", <<>>)
    /\ inflight' = NoThreads
    /\ UNCHANGED << exists, disk, offset, keyStore, log, session, wide >>

NextConc ==
    \/ NewDiskStoreOnce
    \/ \E t \in Threads, key \in Keys, value \in Values : SetSeek(t, key, value)
    \/ \E t \in Threads : SetWrite(t)
    \/ \E t \in Threads : SetWriteError(t)
    \/ \E t \in Threads : SetStore(t)
    \/ SetStoreRace

SpecConc == Init /\ [][NextConc]_vars

(***************************************************************************)
(* The KeyEntry of a record in a large file.  Offsets and lengths are      *)
(* numbers of 64 bits in the program (int64 from Seek, int from encodeKV)  *)
(* and the fields of KeyEntry are uint32.  The actions below make the      *)
(* KeyEntry as Set and createKeyStore make it, for a record of a key of    *)
(* keySize bytes and a value of valueSize bytes that begins at offset pos, *)
(* and read through it as Get does.                                        *)
(***************************************************************************)
\* Offsets at which a record begins: small, about 2^32 and 2^33.
WideOffsets ==
    { Wide(0, 0), Wide(0, 13), Wide(Half - 1, Half - 1), Wide(Half, 0),
      Wide(Half, 13), Wide(2 * Half, 0) }

\* Lengths of keys and of values, each below 2^32 as the header requires.
WideKeySizes == { Wide(0, 1), Wide(0, 2), Wide(1, 0) }
WideValueSizes ==
    { Wide(0, 0), Wide(0, 1), Wide(Half - 1, Half - 14),
      Wide(Half - 1, Half - 13), Wide(Half - 1, Half - 1) }

\* Set, line 113: pos is the int64 from Seek and size the int from encodeKV,
\* the length of the record.
SetWide(pos, keySize, valueSize) ==
    /\ wide.op \in {"none", "Get"}
    /\ LET size == WideAdd(WideAdd(Wide(0, headerSize), keySize), valueSize) IN
       wide' = [ op |-> "Set", pos |-> pos, size |-> size,
                 entry |-> KeyEntry(Now, uint32Wide(pos), uint32Wide(size)),
                 seek |-> Wide(0, 0), read |-> Wide(0, 0) ]
    /\ UNCHANGED << exists, disk, pc, offset, keyStore, last, log, session, inflight >>

\* createKeyStore, lines 131-153: pos is the int64 from Seek; keySize and
\* valueSize are the uint32 fields of the header, and totalSize is their sum
\* with headerSize in uint32 arithmetic.
ScanWide(pos, keySize, valueSize) ==
    /\ wide.op \in {"none", "Get"}
    /\ LET totalSize == uint32Add(uint32Add(Wide(0, headerSize), keySize), valueSize) IN
       wide' = [ op |-> "Scan", pos |-> pos,
                 size |-> WideAdd(WideAdd(Wide(0, headerSize), keySize), valueSize),
                 entry |-> KeyEntry(Now, uint32Wide(pos), totalSize),
                 seek |-> Wide(0, 0), read |-> Wide(0, 0) ]
    /\ UNCHANGED << exists, disk, pc, offset, keyStore, last, log, session, inflight >>

\* Get, lines 87-91: Seek to int64(keyEntry.position) and read
\* keyEntry.totalSize bytes.
GetWide ==
    /\ wide.op \in {"Set", "Scan"}
    /\ wide' = [ wide EXCEPT !.op = "Get", !.seek = wide.entry.position,
                             !.read = wide.entry.totalSize ]
    /\ UNCHANGED << exists, disk, pc, offset, keyStore, last, log, session, inflight >>

NextWide ==
    \/ \E pos \in WideOffsets, keySize \in WideKeySizes, valueSize \in WideValueSizes :
         SetWide(pos, keySize, valueSize)
    \/ \E pos \in WideOffsets, keySize \in WideKeySizes, valueSize \in WideValueSizes :
         ScanWide(pos, keySize, valueSize)
    \/ GetWide

SpecWide == Init /\ [][NextWide]_vars

(***************************************************************************)
(* Auxiliary definitions for the properties.                               *)
(***************************************************************************)
\* Every Set call so far completed its write: the file is the concatenation
\* of the records of log.
Intact == \A i \in 1..Len(log) : log[i].complete

\* The entries of log for key, and those made since the store was opened.
SetsOf(key) == { i \in 1..Len(log) : log[i].complete /\ log[i].key = key }
SessionSetsOf(key) == { i \in SetsOf(key) : i > session.start }

\* The largest element of a non-empty set of numbers.
Latest(S) == CHOOSE i \in S : \A j \in S : j <= i

\* The bytes of the file at offsets at .. at + n - 1 (those that exist).
BytesAt(f, at, n) ==
    SubSeq(f, at + 1, IF at + n <= Len(f) THEN at + n ELSE Len(f))

\* The record of a completed log entry, as it was written.
RecordOf(w) == encodeKV(w.timestamp, w.key, w.value).bytes

\* What the caller of Get gets: the kind of outcome and the value returned.
Outcome(r) == [ status |-> r.status, ret |-> r.ret ]

(***************************************************************************)
(* C1  Write-then-read: on an open store, Set(k, v) immediately followed   *)
(* by Get(k) returns exactly v.  (Stated for runs in which no write ever   *)
(* failed.)                                                                *)
(***************************************************************************)
WriteThenRead ==
    [][ ( /\ Intact
          /\ last.op = "Set" /\ last.status = "ok"
          /\ last'.op = "Get" /\ last'.key = last.key )
        => ( last'.status = "ok" /\ last'.ret = last.value ) ]_vars

(***************************************************************************)
(* C2  Last-write-wins: when an open store has seen Set(k, v1) and later   *)
(* Set(k, v2) with v1 # v2, v2 being the latest value set for k, Get(k)    *)
(* returns v2, the record of (k, v1) is still in the file at its offset,   *)
(* byte for byte, and no entry of the index points to it.                  *)
(***************************************************************************)
LastWriteWins ==
    [][ ( /\ Intact
          /\ pc = "open"
          /\ last'.op = "Get"
          /\ SessionSetsOf(last'.key) # {} )
        => LET S  == SessionSetsOf(last'.key)
               w2 == log[Latest(S)]
           IN \A i \in S :
                log[i].value # w2.value
                => /\ last'.status = "ok"
                   /\ last'.ret = w2.value
                   /\ BytesAt(disk', log[i].at, log[i].written) = RecordOf(log[i])
                   /\ \A k \in DOMAIN keyStore' :
                        keyStore'[k].position # log[i].at ]_vars

(***************************************************************************)
(* C3  Recovery equivalence: after a sequence of Set calls on an open      *)
(* store, Close and reopening, Get yields for every key what it yielded on *)
(* the store just before Close.  (In the closed state the index, the file  *)
(* and the offset are those of the store just before Close.)               *)
(***************************************************************************)
RecoveryEquivalence ==
    [][ ( /\ Intact
          /\ pc = "closed" /\ last.op = "Close" /\ ~session.gets
          /\ last'.op = "Open" )
        => /\ pc' = "open"
           /\ \A k \in Keys \cup DOMAIN keyStore \cup DOMAIN keyStore' :
                Outcome(GetResult(keyStore', disk', offset', TRUE, k))
                  = Outcome(GetResult(keyStore, disk, offset, TRUE, k)) ]_vars

(***************************************************************************)
(* C4  Index invariant: on an open store every key of the index has an     *)
(* entry whose position is the offset of the last record in the file with  *)
(* that key and whose totalSize is the length of that record.              *)
(***************************************************************************)
IndexInvariant ==
    ( Intact /\ pc = "open" )
    => \A k \in DOMAIN keyStore :
         /\ SetsOf(k) # {}
         /\ keyStore[k].position = log[Latest(SetsOf(k))].at
         /\ keyStore[k].totalSize = log[Latest(SetsOf(k))].written

(***************************************************************************)
(* C5  Miss behaviour.  A key is never written when no Set call named it;  *)
(* MissOutcome is what Get yields for such a key.                          *)
(***************************************************************************)
NeverWritten(key) == Intact /\ SetsOf(key) = {}

MissOutcome == Outcome(GetResult(EmptyKeyStore, disk, offset, TRUE, <<>>))

TailCutInValue ==
    /\ log # <<>>
    /\ \A i \in 1..(Len(log) - 1) : log[i].complete
    /\ LET w == log[Len(log)]
           h == decodeHeader(BytesAt(disk, w.at, headerSize))
       IN /\ ~w.complete
          /\ w.written >= headerSize
          /\ w.written >= headerSize + h.keySize
          /\ w.written < headerSize + h.keySize + h.valueSize

TruncatedTailRejected ==
    ( last.op = "Open" /\ TailCutInValue )
    => /\ last.status = "fatal"
       /\ pc = "dead"
       /\ \A k \in DOMAIN keyStore : keyStore[k].position # log[Len(log)].at

(***************************************************************************)
(* C7  Use after close: on a closed store every Get and every Set fails,   *)
(* and the index and the file stay as they are.                            *)
(***************************************************************************)
UseAfterClose ==
    [][ ( pc = "closed" /\ last'.op \in {"Get", "Set"} )
        => /\ last'.status # "ok"
           /\ keyStore' = keyStore
           /\ disk' = disk ]_vars

(***************************************************************************)
(* C8  Append-only log: every step leaves the file's contents a prefix of  *)
(* the new contents, and a Set that completes adds exactly the record of   *)
(* 12 + len(key) + len(value) bytes at the previous end of the file.       *)
(***************************************************************************)
IsPrefix(f, g) == Len(f) <= Len(g) /\ SubSeq(g, 1, Len(f)) = f

AppendOnly ==
    [][ /\ IsPrefix(disk, disk')
        /\ exists => exists'
        /\ ( last'.op = "Set" /\ last'.status = "ok" )
             => /\ Len(disk') = Len(disk) + 12 + Len(last'.key) + Len(last'.value)
                /\ LET kv == decodeKV(BytesAt(disk', Len(disk), Len(disk') - Len(disk)))
                   IN kv.ok /\ kv.key = last'.key /\ kv.value = last'.value ]_vars

\* A Set completed while the offset of the file was not at its end.
AppendWitness ==
    /\ last.op = "Set" /\ last.status = "ok"
    /\ last.key \in DOMAIN keyStore
    /\ keyStore[last.key].position + keyStore[last.key].totalSize < Len(disk)
    /\ Len(log) >= 2

(***************************************************************************)
(* C9  Empty-file open: NewDiskStore on a path without a file succeeds,    *)
(* leaves an empty file and an empty index, and until the first Set every  *)
(* Get returns the result of a miss.                                       *)
(***************************************************************************)
FreshUnwritten ==
    /\ session.fresh
    /\ Len(log) = session.start
    /\ last.op \in {"Open", "Get", "Close"}

EmptyFileOpen ==
    FreshUnwritten
    => /\ exists
       /\ disk = <<>>
       /\ keyStore = EmptyKeyStore
       /\ pc \in {"open", "closed"}
       /\ last.op = "Open" => ( last.status = "ok" /\ pc = "open" )
       /\ last.op = "Get" => ( last.status = "ok" /\ last.ret = <<>> )

EmptyFileWitness ==
    /\ FreshUnwritten
    /\ pc = "open"
    /\ last.op = "Get" /\ last.status = "ok"

(***************************************************************************)
(* C10  No removal of keys: a key of the index stays in the index through  *)
(* every Get, Set and Close, and through reopening the file.               *)
(***************************************************************************)
NoRemovalOfKeys ==
    [][ ( pc \in {"open", "closed"} /\ pc' \in {"open", "closed"} )
        => DOMAIN keyStore \subseteq DOMAIN keyStore' ]_vars

(***************************************************************************)
(* C11  Set records the true write position: the position that a completed *)
(* Set(k, v) stores in the index for k is the length the file had before   *)
(* the write, the offset at which the record of the call is.               *)
(***************************************************************************)
SetRecordsWritePosition ==
    ( Intact /\ pc = "open" /\ last.op = "Set" /\ last.status = "ok" )
    => /\ last.key \in DOMAIN keyStore
       /\ keyStore[last.key].position = log[Len(log)].at
       /\ BytesAt(disk, keyStore[last.key].position, keyStore[last.key].totalSize)
            = RecordOf(log[Len(log)])

(***************************************************************************)
(* C12  Recovery builds the exact index: NewDiskStore on an existing file  *)
(* that is a concatenation of complete records yields the index whose keys *)
(* are exactly the keys of the records and whose entry for a key is        *)
(* {timestamp, position, 12 + key size + value size} of the last record    *)
(* with that key.                                                          *)
(***************************************************************************)
\* The file holds complete records only (a failed write left no byte).
FileComplete == \A i \in 1..Len(log) : log[i].complete \/ log[i].written = 0

RecoveryBuildsIndex ==
    ( last.op = "Open" /\ ~session.fresh /\ FileComplete )
    => /\ last.status = "ok" /\ pc = "open"
       /\ DOMAIN keyStore = { log[i].key : i \in { j \in 1..Len(log) : log[j].complete } }
       /\ \A k \in DOMAIN keyStore :
            LET w == log[Latest(SetsOf(k))]
            IN keyStore[k] = [ timestamp |-> w.timestamp,
                               position  |-> w.at,
                               totalSize |-> 12 + Len(w.key) + Len(w.value) ]

\* Recovery ran on a file with two keys, one of them written twice.
RecoveryWitness ==
    /\ last.op = "Open" /\ ~session.fresh /\ FileComplete /\ pc = "open"
    /\ Cardinality(DOMAIN keyStore) = 2
    /\ \E k \in DOMAIN keyStore :
         /\ Cardinality(SetsOf(k)) >= 2
         /\ Latest(SetsOf(k)) < Len(log)

(***************************************************************************)
(* C13  Recovery header and key handling: at a record boundary the scan    *)
(* ends successfully when no byte remains; when 1 to 11 bytes remain, or   *)
(* the header is complete and fewer than key_size key bytes remain,        *)
(* recovery is fatal and NewDiskStore returns no store.                    *)
(***************************************************************************)
\* The file is complete records followed by what a failed write left.
TornTail ==
    /\ log # <<>>
    /\ \A i \in 1..(Len(log) - 1) : log[i].complete
    /\ ~log[Len(log)].complete

\* The number of bytes that remain at the last record boundary.
Remaining == Len(disk) - log[Len(log)].at

RecoveryHeaderKey ==
    ( last.op = "Open" /\ ~session.fresh /\ TornTail )
    => LET h == decodeHeader(BytesAt(disk, log[Len(log)].at, headerSize)) IN
       /\ Remaining = 0 => ( last.status = "ok" /\ pc = "open" )
       /\ Remaining \in 1..11 => ( last.status = "fatal" /\ pc = "dead" )
       /\ ( Remaining >= 12 /\ Remaining < 12 + h.keySize )
            => ( last.status = "fatal" /\ pc = "dead" )

\* Recovery met a complete header whose key is missing, after a record.
ShortKeyWitness ==
    /\ last.op = "Open" /\ ~session.fresh /\ TornTail
    /\ Len(log) >= 2
    /\ Remaining = 12
    /\ decodeHeader(BytesAt(disk, log[Len(log)].at, headerSize)).keySize > 0
    /\ pc = "dead"

(***************************************************************************)
(* C14  Get never returns a wrong value on an index/file mismatch: when    *)
(* the entry of a key has position + total_size greater than the length of *)
(* the file (the file as it is, or cut short from outside to any length),  *)
(* Get on that key fails and returns no value.                             *)
(***************************************************************************)
GetMismatchFails ==
    pc = "open"
    => \A k \in DOMAIN keyStore : \A n \in 0..Len(disk) :
         keyStore[k].position + keyStore[k].totalSize > n
         => LET r == GetResult(keyStore, SubSeq(disk, 1, n), offset, TRUE, k)
            IN r.status = "fatal" /\ r.ret = <<>>

\* Get was called on a key whose entry reaches beyond the end of the file.
GetMismatchWitness ==
    /\ last.op = "Get" /\ last.status = "fatal"
    /\ last.key \in DOMAIN keyStore
    /\ keyStore[last.key].position + keyStore[last.key].totalSize > Len(disk)

(***************************************************************************)
(* C15  Set failure leaves the index unchanged: when the write of a Set    *)
(* does not complete, every index entry is what it was before the call;    *)
(* a Set changes the index only when its whole record has been written.    *)
(***************************************************************************)
SetFailureKeepsIndex ==
    [][ /\ ( last'.op = "Set" /\ last'.status = "fatal" ) => keyStore' = keyStore
        /\ ( last'.op = "Set" /\ keyStore' # keyStore )
             => /\ last'.status = "ok"
                /\ Len(log') = Len(log) + 1
                /\ log'[Len(log')].complete
                /\ disk' = disk \o RecordOf(log'[Len(log')]) ]_vars

\* A write stopped after some bytes, on a store whose index was not empty.
SetFailureWitness ==
    /\ last.op = "Set" /\ last.status = "fatal"
    /\ log # <<>> /\ ~log[Len(log)].complete /\ log[Len(log)].written > 0
    /\ DOMAIN keyStore # {}

(***************************************************************************)
(* C16  The index is mutated only by Set: once NewDiskStore has returned,  *)
(* Get (hit or miss) and Close leave the index unchanged and Get leaves    *)
(* the file unchanged; of the calls on a store only Set changes the index, *)
(* and Set(k, v) changes only the entry of k.                              *)
(***************************************************************************)
IndexFrame ==
    [][ /\ last'.op \in {"Get", "Close"} => keyStore' = keyStore
        /\ last'.op = "Get" => disk' = disk
        /\ keyStore' # keyStore => last'.op \in {"Set", "Open"}
        /\ last'.op = "Set"
             => /\ DOMAIN keyStore' \subseteq DOMAIN keyStore \cup {last'.key}
                /\ \A k \in DOMAIN keyStore :
                     k # last'.key => ( k \in DOMAIN keyStore' /\ keyStore'[k] = keyStore[k] )
      ]_vars

\* A Set replaced the entry of a key while another key was in the index.
IndexFrameWitness ==
    /\ pc = "open" /\ last.op = "Set" /\ last.status = "ok"
    /\ Cardinality(SessionSetsOf(last.key)) >= 2
    /\ \E k \in DOMAIN keyStore : k # last.key

(***************************************************************************)
(* C17  Set is not atomic without mutual exclusion: it reads the offset,   *)
(* appends the record and updates the index in three steps with no lock.   *)
(* The position a Set stores is the offset it read in the first step; it   *)
(* is the offset of the record the Set wrote exactly when no other Set     *)
(* wrote between the two steps, so with two threads an entry whose         *)
(* position is not the offset of its own record is reachable.              *)
(***************************************************************************)
StoredPositionIsOffsetRead ==
    [][ \A t \in DOMAIN inflight :
          ( inflight[t].pc = "store" /\ inflight'[t].pc = "done" )
          => LET c == inflight[t] IN
             /\ c.key \in DOMAIN keyStore'
             /\ keyStore'[c.key].timestamp = c.timestamp
             /\ keyStore'[c.key].position = c.pos
             /\ ( keyStore'[c.key].position = c.at ) <=> ~c.raced
             /\ c.raced => c.at > c.pos ]_vars

\* The entry a Set stored does not point at the record that Set wrote.
InterleavedSetWitness ==
    /\ pc = "open"
    /\ \E t \in DOMAIN inflight :
         LET c == inflight[t] IN
         /\ c.pc = "done"
         /\ c.key \in DOMAIN keyStore
         /\ keyStore[c.key].timestamp = c.timestamp
         /\ keyStore[c.key].position # c.at
         /\ \E i \in 1..Len(log) :
              /\ log[i].complete /\ log[i].timestamp = c.timestamp
              /\ log[i].key = c.key /\ log[i].at = c.at

(***************************************************************************)
(* C18  Get is observationally side-effect free: on an open store, an      *)
(* extra Get(k) before a later Set changes neither the index that Set      *)
(* produces nor the result of any Get after it.                            *)
(***************************************************************************)
GetIsUnobservable ==
    ( pc = "open" /\ Intact )
    => \A k \in Keys :
         LET g == GetResult(keyStore, disk, offset, TRUE, k) IN
         g.status = "ok"
         => \A key \in Keys, value \in Values :
              LET without == SetEffect(keyStore, disk, offset, key, value, Now)
                  with    == SetEffect(keyStore, disk, g.off, key, value, Now)
              IN /\ with.keyStore = without.keyStore
                 /\ \A j \in Keys :
                      LET a == GetResult(without.keyStore, without.file, without.off, TRUE, j)
                          b == GetResult(with.keyStore, with.file, with.off, TRUE, j)
                      IN a.status = b.status /\ a.ret = b.ret

(***************************************************************************)
(* C19  Index entries stay within the file and on record boundaries:       *)
(* starting from a new file or a file of complete records, every index     *)
(* entry has position + total_size <= length of the file and a position    *)
(* that is the start of some record of the file, so that Get on an indexed *)
(* key never hits a short read.                                            *)
(***************************************************************************)
EntriesOnRecordBoundaries ==
    ( Intact /\ pc \in {"open", "closed"} )
    => \A k \in DOMAIN keyStore :
         /\ keyStore[k].position + keyStore[k].totalSize <= Len(disk)
         /\ \E i \in 1..Len(log) : log[i].at = keyStore[k].position
         /\ pc = "open"
              => GetResult(keyStore, disk, offset, TRUE, k).status # "fatal"

(***************************************************************************)
(* C20  No wrap-around of stored offsets and sizes: position and           *)
(* total_size of an index entry are 32-bit unsigned values and equal the   *)
(* true offset and the true length of the record, also for a record at an  *)
(* offset of 2^32 or more and for a record of 2^32 bytes or more; Get      *)
(* therefore seeks to the record and reads all of it.                      *)
(***************************************************************************)
NoWrapAround ==
    wide.op # "none"
    => /\ wide.entry.position.hi < Half /\ wide.entry.totalSize.hi < Half
       /\ wide.entry.position = wide.pos
       /\ wide.entry.totalSize = wide.size
       /\ wide.op = "Get" => ( wide.seek = wide.pos /\ wide.read = wide.size )

====
